---- MODULE Spec2Model ----
(***************************************************************************)
(* Workflow engine of the application controller, as laid out in           *)
(* design/vela-core/workflow_policy.md: ordered workflow steps tagged with *)
(* a stage, each delegated to a step controller through an applied target  *)
(* object that carries a context annotation and answers with a             *)
(* "workflow-finish" condition.                                            *)
(***************************************************************************)
EXTENDS Integers, Sequences, FiniteSets, TLC

\* ------------------------------------------------------------------ bounds
MaxSteps == 2
MaxRevision == 2
MaxComps == 2
MaxSlack == 2
MaxDashes == 2

\* ------------------------------------------------------- workflow declaration
\* stage: pre-render | post-render
Stages == {"pre-render", "post-render"}

\* the step types of the proposal's example workflows, one per array index
StepTypeNames ==
  <<"blue-green-rollout", "traffic-shift", "rollout-promotion",
    "helm-template", "kustomize-patch", "gitops">>

\* a workflow of n steps: step i has the i-th type and any stage
WorkflowsOfLen(n) ==
  { [i \in 1..n |-> [type |-> StepTypeNames[i], stage |-> st[i]]] :
      st \in [1..n -> Stages] }

Workflows == UNION { WorkflowsOfLen(n) : n \in 1..MaxSteps }

RECURSIVE SelectIdx(_, _, _)
\* the indices i..Len(wf) of the steps of stage st, in array order
SelectIdx(wf, st, i) ==
  IF i > Len(wf) THEN <<>>
  ELSE IF wf[i].stage = st THEN <<i>> \o SelectIdx(wf, st, i + 1)
       ELSE SelectIdx(wf, st, i + 1)

\* the step list of one stage
StageSteps(wf, st) == SelectIdx(wf, st, 1)

\* faulty variant: the stages are ignored and the array is walked front to back
ExecOrderArray(wf) == [i \in 1..Len(wf) |-> i]

\* the order in which the controller executes the steps: the pre-render
\* steps first (before rendering), then the post-render steps, each stage in
\* array order
ExecOrder(wf) == StageSteps(wf, "pre-render") \o StageSteps(wf, "post-render")

NumPre(wf) == Len(StageSteps(wf, "pre-render"))

\* ------------------------------------------------------ finish condition
Reasons == {"Succeeded", "Stopped", "Failed"}
ErrMsgs == {"rollout aborted"}

\* a message that is plain text
TextMessage(t) == [text |-> t]
NoMessage == TextMessage("")
NoCond == [present |-> FALSE]

\* conditions: - type: workflow-finish, status, reason, message
FinishCond(st, rs, msg) ==
  [present |-> TRUE, status |-> st, reason |-> rs, message |-> msg]

\* message: '{"observedGeneration":1}'
GenMessage(g) == [observedGeneration |-> g]

ParseObservedGeneration(msg) ==
  IF "observedGeneration" \in DOMAIN msg THEN msg.observedGeneration ELSE -1

\* faulty variant: the observed generation is compared with the generation to come
ClassifyNextGeneration(cond, gen) ==
  IF ~cond.present \/ ~cond.status THEN "running"
  ELSE IF cond.reason = "Succeeded"
       THEN IF ParseObservedGeneration(cond.message) = gen + 1
            THEN "succeeded" ELSE "running"
  ELSE IF cond.reason = "Failed" THEN "failed"
  ELSE "stopped"

\* faulty variant: the observed generation is not compared
ClassifyNoGeneration(cond, gen) ==
  IF ~cond.present \/ ~cond.status THEN "running"
  ELSE IF cond.reason = "Succeeded" THEN "succeeded"
  ELSE IF cond.reason = "Failed" THEN "failed"
  ELSE "stopped"

\* faulty variant: a Stopped step is reported as a failure
ClassifyStoppedAsFailed(cond, gen) ==
  IF ~cond.present \/ ~cond.status THEN "running"
  ELSE IF cond.reason = "Succeeded"
       THEN IF ParseObservedGeneration(cond.message) = gen
            THEN "succeeded" ELSE "running"
  ELSE "failed"

\* faulty variant: a Failed step only stops the workflow
ClassifyFailedAsStopped(cond, gen) ==
  IF ~cond.present \/ ~cond.status THEN "running"
  ELSE IF cond.reason = "Succeeded"
       THEN IF ParseObservedGeneration(cond.message) = gen
            THEN "succeeded" ELSE "running"
  ELSE "stopped"

\* faulty variant: the status of the condition is not looked at
ClassifyIgnoreStatus(cond, gen) ==
  IF ~cond.present THEN "running"
  ELSE IF cond.reason = "Succeeded"
       THEN IF ParseObservedGeneration(cond.message) = gen
            THEN "succeeded" ELSE "running"
  ELSE IF cond.reason = "Failed" THEN "failed"
  ELSE "stopped"

\* the phase a step is in, from the finish condition of its target object and
\* the generation of the object as just applied
Classify(cond, gen) ==
  IF ~cond.present \/ ~cond.status THEN "running"
  ELSE IF cond.reason = "Succeeded"
       THEN IF ParseObservedGeneration(cond.message) = gen
            THEN "succeeded" ELSE "running"
  ELSE IF cond.reason = "Failed" THEN "failed"
  ELSE "stopped"

\* faulty variant: the cursor moves on whatever the step reported
NextCursorAlways(phase, cur) == cur + 1

\* Succeeded makes the controller run the next step
NextCursor(phase, cur) == IF phase = "succeeded" THEN cur + 1 ELSE cur

\* Stopped and Failed make the controller stop the workflow
NextState(phase, st) ==
  CASE phase = "failed" -> "Failed"
    [] phase = "stopped" -> "Stopped"
    [] OTHER -> st

\* what a pass on a step returns: re-invoke later, or nothing left to do
PassResult(phase) ==
  IF phase \in {"failed", "stopped"} THEN "done" ELSE "requeue"

\* faulty variant: the error of a failed step is dropped
ErrorDetailNone(cond, phase) == NoMessage

\* the error recorded with a step: the message of a Failed condition
ErrorDetail(cond, phase) ==
  IF phase = "failed" THEN cond.message ELSE NoMessage

\* --------------------------------------------------------------- the state
VARIABLES
  steps,      \* spec.workflow of the Application
  revision,   \* number of the current ApplicationRevision
  wfState,    \* state of the engine for the current revision
  cursor,     \* position, in execution order, of the step being executed
  status,     \* Application.status.workflow
  targets,    \* per step: the workflow object applied for it
  bundles,    \* revisions whose rendered resources are stored (ConfigMap)
  pc,         \* position inside a reconcile pass: "idle" | "applying"
  fresh,      \* the object read in this pass is still the stored one
  result      \* what the last reconcile pass returned

\* the state of one run of the assembler over a revision
VARIABLES
  comps,      \* the components of the revision bundle, in order
  options,    \* the configured workload options, in order
  apc,        \* position of the run
  ci,         \* index of the component being assembled
  oi,         \* index of the next workload option to run
  wl,         \* the workload being assembled
  workloads,  \* result: component name -> assembled workload
  traits,     \* result: component name -> assembled traits
  errs,       \* result: component name -> error
  scopes,     \* result: workload reference -> scope references
  store,      \* the objects of the cluster, by namespace and name
  reads,      \* the component indices for which the run read the store
  prior       \* <<>>, then <<what the run before this one returned>>

\* the state of one computation of a Helm release's workload name, and of
\* one naming of two traits of a component
VARIABLES
  rlsName,    \* name of the release
  chartName,  \* name of the chart
  qualified,  \* the name computed: <<>>, then <<name>>
  tnComponent,  \* name of the component of the traits
  tnType,  \* type of the two traits
  cts,        \* the two traits
  traitNames  \* the names generated: <<>>, then one name for each trait

\* the state of one lookup of a definition
VARIABLES
  dns,        \* value of the environment variable DEFINITION_NAMESPACE
  ctxValue,   \* namespace carried in the context: <<>>, or <<namespace>>
  definitions,  \* what a read of the definition gives, by namespace
  gets,       \* the namespaces read so far, in order
  lastErr,    \* the error of the last read
  dpc,        \* position of the lookup
  ret         \* what the lookup returned

engineVars == <<steps, revision, wfState, cursor, status, targets, bundles,
                pc, fresh, result>>
assembleVars == <<comps, options, apc, ci, oi, wl, workloads, traits, errs,
                  scopes, store, reads, prior>>
nameVars == <<rlsName, chartName, qualified, tnComponent, tnType, cts,
              traitNames>>
defVars == <<dns, ctxValue, definitions, gets, lastErr, dpc, ret>>

vars == <<engineVars, assembleVars, nameVars, defVars>>

\* no value
Nil == [nil |-> TRUE]

\* no revision is being assembled
AssembleIdle ==
  /\ comps = <<>>
  /\ options = <<>>
  /\ apc = "idle"
  /\ ci = 0
  /\ oi = 0
  /\ wl = Nil
  /\ workloads = <<>>
  /\ traits = <<>>
  /\ errs = <<>>
  /\ scopes = <<>>
  /\ store = <<>>
  /\ reads = <<>>
  /\ prior = <<>>

\* no workload name is being computed
HelmNameIdle ==
  /\ rlsName = <<>>
  /\ chartName = <<>>
  /\ qualified = <<>>

\* no trait is being named
TraitNameIdle ==
  /\ tnComponent = <<>>
  /\ tnType = <<>>
  /\ cts = <<>>
  /\ traitNames = <<>>

NameIdle == HelmNameIdle /\ TraitNameIdle

\* no definition is being looked up
DefinitionIdle ==
  /\ dns = ""
  /\ ctxValue = <<>>
  /\ definitions = <<>>
  /\ gets = <<>>
  /\ lastErr = "none"
  /\ dpc = "idle"
  /\ ret = "none"

N == Len(steps)
Order == ExecOrder(steps)
StepAt(pos) == Order[pos]
CursorStep == StepAt(cursor)

\* type WorkflowContext struct { AppName, AppRevisionName, WorkflowIndex }
WorkflowContext(rev, idx) ==
  [AppName |-> "app", AppRevisionName |-> rev, WorkflowIndex |-> idx]

NoContext == WorkflowContext(0, 0)

\* the object of a step that was never applied
NoTarget == [gen |-> 0, ctx |-> NoContext, cond |-> NoCond]

\* status.workflow entry: type, phase, resourceRef (and the error of a failure)
StepStatus(k, phase, msg) ==
  [type |-> steps[k].type, phase |-> phase, resourceRef |-> k, message |-> msg]

Init ==
  /\ steps \in Workflows
  /\ revision = 1
  /\ wfState = "Idle"
  /\ cursor = 1
  /\ status = <<>>
  /\ targets = [k \in 1..Len(steps) |-> NoTarget]
  /\ bundles = {}
  /\ pc = "idle"
  /\ fresh = FALSE
  /\ result = "none"
  /\ AssembleIdle
  /\ NameIdle
  /\ DefinitionIdle

\* ------------------------------------------------------------ the engine
\* a modification of the Application generates a new AppRevision; the
\* workflow starts over and the steps are applied with the new context
NewRevision ==
  /\ pc = "idle"
  /\ revision < MaxRevision
  /\ revision' = revision + 1
  /\ wfState' = "Idle"
  /\ cursor' = 1
  /\ status' = <<>>
  /\ result' = "requeue"
  /\ UNCHANGED <<steps, targets, bundles, pc, fresh>>
  /\ UNCHANGED <<assembleVars, nameVars, defVars>>

\* first pass over a revision: the pre-render steps come first
ObserveRevision ==
  /\ pc = "idle"
  /\ wfState = "Idle"
  /\ wfState' = "PreRendering"
  /\ result' = "requeue"
  /\ UNCHANGED <<steps, revision, cursor, status, targets, bundles,
                 pc, fresh>>
  /\ UNCHANGED <<assembleVars, nameVars, defVars>>

\* faulty variant: a halted workflow is reconciled like a running one
CursorInStageAnyState == wfState \notin {"Idle", "Rendered"} /\ cursor <= N

\* the cursor is on a step of the stage being executed
CursorInStage ==
  \/ wfState = "PreRendering" /\ cursor <= NumPre(steps)
  \/ wfState = "Running" /\ cursor > NumPre(steps) /\ cursor <= N

\* faulty variant: every pass appends an entry
MarkRunningAppend(st, pos, entry) == Append(st, entry)

\* the entry of the step at the cursor is appended once, as running
MarkRunning(st, pos, entry) ==
  IF pos <= Len(st) THEN st ELSE Append(st, entry)

\* faulty variant: a step that halts the workflow discards the entries before it
RecordStatusRollback(st, pos, entry) ==
  IF entry.phase \in {"failed", "stopped"}
  THEN [i \in 1..Len(st) |-> IF i = pos THEN entry
                              ELSE [st[i] EXCEPT !.phase = "running"]]
  ELSE [st EXCEPT ![pos] = entry]

\* the entry of a step is updated in place
RecordStatus(st, pos, entry) == [st EXCEPT ![pos] = entry]

\* first half of a pass on the step at the cursor: the step is recorded as
\* running and its object is read
ReadTarget ==
  /\ pc = "idle"
  /\ CursorInStage
  /\ status' = MarkRunning(status, cursor,
                           StepStatus(CursorStep, "running", NoMessage))
  /\ pc' = "applying"
  /\ fresh' = TRUE
  /\ UNCHANGED <<steps, revision, wfState, cursor, targets, bundles,
                 result>>
  /\ UNCHANGED <<assembleVars, nameVars, defVars>>

\* faulty variant: every apply raises the generation of the object
ApplyToBumpAlways(t, k, changed) ==
  [gen |-> t.gen + 1,
   ctx |-> WorkflowContext(revision, k),
   cond |-> t.cond]

\* faulty variant: the context annotation is set when the object is created
\* and kept afterwards
ApplyToKeepContext(t, k, changed) ==
  [gen |-> IF t.gen = 0 THEN 1
           ELSE IF changed /\ t.ctx.AppRevisionName # revision THEN t.gen + 1
           ELSE t.gen,
   ctx |-> IF t.gen = 0 THEN WorkflowContext(revision, k) ELSE t.ctx,
   cond |-> t.cond]

\* the object t of step k as applied for the current revision: created with
\* generation 1; on the first apply of a revision its generation is raised
\* when the revision changed the properties of the step (changed); the
\* context annotation is replaced, the status left to the step controller
ApplyTo(t, k, changed) ==
  [gen |-> IF t.gen = 0 THEN 1
           ELSE IF changed /\ t.ctx.AppRevisionName # revision THEN t.gen + 1
           ELSE t.gen,
   ctx |-> WorkflowContext(revision, k),
   cond |-> t.cond]

\* the stored object of step k as applied for the current revision
Applied(k, changed) == ApplyTo(targets[k], k, changed)

\* faulty variant: the write carries no precondition on the version read
VersionConflictNever == FALSE

\* the object was modified after the engine read it: the write, conditional
\* on the version read, is rejected
VersionConflict == ~fresh

\* second half of a pass: the write, conditional on the version read, and
\* the evaluation of the finish condition of the object
ApplyStep ==
  /\ pc = "applying"
  /\ pc' = "idle"
  /\ fresh' = FALSE
  /\ IF VersionConflict
     THEN \* conflict: nothing is written, the pass is retried
          /\ result' = "requeue"
          /\ UNCHANGED <<wfState, cursor, status, targets>>
     ELSE \E changed \in BOOLEAN :
          LET k == CursorStep
              obj == Applied(k, changed)
              phase == Classify(obj.cond, obj.gen)
          IN
          /\ targets' = [targets EXCEPT ![k] = obj]
          /\ status' = RecordStatus(status, cursor,
                          StepStatus(k, phase, ErrorDetail(obj.cond, phase)))
          /\ cursor' = NextCursor(phase, cursor)
          /\ wfState' = NextState(phase, wfState)
          /\ result' = PassResult(phase)
  /\ UNCHANGED <<steps, revision, bundles>>
  /\ UNCHANGED <<assembleVars, nameVars, defVars>>

\* faulty variant: rendering does not wait for the pre-render steps
PreRenderDoneAlways == TRUE

\* every pre-render step was executed
PreRenderDone == cursor > NumPre(steps)

\* the end of the pre-render step list: the components are rendered and the
\* resources stored in the ConfigMap referenced by the AppRevision
Render ==
  /\ pc = "idle"
  /\ wfState = "PreRendering"
  /\ PreRenderDone
  /\ wfState' = "Rendered"
  /\ bundles' = bundles \cup {revision}
  /\ result' = "requeue"
  /\ UNCHANGED <<steps, revision, cursor, status, targets, pc, fresh>>
  /\ UNCHANGED <<assembleVars, nameVars, defVars>>

\* the controller then reconciles the (post-render) workflow step by step
StartRunning ==
  /\ pc = "idle"
  /\ wfState = "Rendered"
  /\ wfState' = "Running"
  /\ result' = "requeue"
  /\ UNCHANGED <<steps, revision, cursor, status, targets, bundles,
                 pc, fresh>>
  /\ UNCHANGED <<assembleVars, nameVars, defVars>>

\* the end of the post-render step list
Finish ==
  /\ pc = "idle"
  /\ wfState = "Running"
  /\ cursor > N
  /\ wfState' = "Succeeded"
  /\ result' = "done"
  /\ UNCHANGED <<steps, revision, cursor, status, targets, bundles,
                 pc, fresh>>
  /\ UNCHANGED <<assembleVars, nameVars, defVars>>

\* ------------------------------------------------------ step controllers
\* the conditions of a step that is in progress or has succeeded, written by
\* a step controller that has observed its object at generation gen
SucceedingConds(gen) ==
  { FinishCond(st, "Succeeded", GenMessage(gen)) : st \in BOOLEAN }

\* the finish conditions a step controller may write on an object it has
\* observed at generation gen
ReportableConds(gen) ==
  SucceedingConds(gen)
  \cup { FinishCond(TRUE, "Failed", TextMessage(m)) : m \in ErrMsgs }
  \cup { FinishCond(TRUE, "Stopped", NoMessage) }

\* the controller of step k marks the phase in status.conditions with one of
\* conds; a write between the engine's read and its write makes the engine's
\* write conflict
WriteCond(k, conds) ==
  /\ targets[k].gen > 0
  /\ \E c \in conds :
       /\ c # targets[k].cond
       /\ targets' = [targets EXCEPT ![k].cond = c]
  /\ fresh' = IF pc = "applying" /\ CursorStep = k THEN FALSE ELSE fresh
  /\ UNCHANGED <<steps, revision, wfState, cursor, status, bundles, pc, result>>
  /\ UNCHANGED <<assembleVars, nameVars, defVars>>

\* a step controller reports on its object
StepReport(k) == WriteCond(k, ReportableConds(targets[k].gen))

Next ==
  \/ NewRevision
  \/ ObserveRevision
  \/ ReadTarget
  \/ ApplyStep
  \/ Render
  \/ StartRunning
  \/ Finish
  \/ \E k \in 1..N : StepReport(k)

Spec == Init /\ [][Next]_vars

\* ====================================================== workload options
\* an Application without a workflow
NoWorkflow ==
  /\ steps = <<>>
  /\ revision = 1
  /\ wfState = "Idle"
  /\ cursor = 1
  /\ status = <<>>
  /\ targets = <<>>
  /\ bundles = {}
  /\ pc = "idle"
  /\ fresh = FALSE
  /\ result = "none"

\* --------------------------------------------- name of a Helm-based workload
\* names are sequences of characters

\* len(qualifiedWorkloadName) > 63
MaxNameLength == 63

\* strings.Contains(s, substr)
Contains(s, substr) ==
  \E i \in 1..(Len(s) - Len(substr) + 1) :
    SubSeq(s, i, i + Len(substr) - 1) = substr

\* strings.HasSuffix(s, suffix)
HasSuffix(s, suffix) ==
  /\ Len(s) >= Len(suffix)
  /\ SubSeq(s, Len(s) - Len(suffix) + 1, Len(s)) = suffix

RECURSIVE TrimRight(_, _)
\* faulty variant: every trailing suffix is removed
TrimRight(s, suffix) ==
  IF suffix # <<>> /\ HasSuffix(s, suffix)
  THEN TrimRight(SubSeq(s, 1, Len(s) - Len(suffix)), suffix)
  ELSE s

\* strings.TrimSuffix(s, suffix): s without the suffix, once
TrimSuffix(s, suffix) ==
  IF HasSuffix(s, suffix) THEN SubSeq(s, 1, Len(s) - Len(suffix)) ELSE s

\* faulty variant: the name is cut whether or not the release name contains
\* the chart name
QualifiedWorkloadNameAlwaysJoin(rls, chart) ==
  LET full == rls \o <<"-">> \o chart IN
  IF Len(full) > MaxNameLength
  THEN TrimSuffix(SubSeq(full, 1, MaxNameLength), <<"-">>)
  ELSE full

\* the name under which the workload of a release is looked up: the release
\* name when it contains the chart name, else "<release>-<chart>", cut at 63
\* characters and without one trailing "-"
QualifiedWorkloadName(rls, chart) ==
  IF ~Contains(rls, chart)
  THEN LET full == rls \o <<"-">> \o chart IN
       IF Len(full) > MaxNameLength
       THEN TrimSuffix(SubSeq(full, 1, MaxNameLength), <<"-">>)
       ELSE full
  ELSE rls

\* n times the character c
Fill(n, c) == [i \in 1..n |-> c]

\* lengths of the release names tried: short ones and ones around the limit
BodyLens ==
  (1..MaxSlack)
    \cup ((MaxNameLength - MaxSlack - 2)..(MaxNameLength + MaxSlack))

\* release names: a body with up to MaxDashes "-" at its end
ReleaseNames ==
  { Fill(n, "a") \o Fill(d, "-") : n \in BodyLens, d \in 0..MaxDashes }

\* chart names: none, one contained in the release names, others, and one
\* with two "-" inside
ChartNames ==
  { <<>>, <<"a">>, <<"b">>, <<"a", "b">>, <<"b", "-", "-", "b">> }

NameInit ==
  /\ rlsName \in ReleaseNames
  /\ chartName \in ChartNames
  /\ qualified = <<>>

\* the computation of qualifiedWorkloadName
ComputeName ==
  /\ qualified = <<>>
  /\ qualified' = <<QualifiedWorkloadName(rlsName, chartName)>>
  /\ UNCHANGED <<rlsName, chartName>>
  /\ UNCHANGED <<tnComponent, tnType, cts, traitNames>>
  /\ UNCHANGED <<engineVars, assembleVars, defVars>>

HelmNameInit ==
  NoWorkflow /\ AssembleIdle /\ DefinitionIdle /\ TraitNameIdle /\ NameInit

HelmNameNext == ComputeName

\* the name computation on every release and chart name tried
HelmNameSpec == HelmNameInit /\ [][HelmNameNext]_vars

\* ------------------------------------------------------ objects and names
\* label and annotation keys
LabelAppName == "app.oam.dev/name"
LabelAppRevision == "app.oam.dev/appRevision"
LabelAppRevisionHash == "app.oam.dev/app-revision-hash"
LabelAppComponent == "app.oam.dev/component"
LabelAppComponentRevision == "app.oam.dev/revision"
WorkloadTypeLabel == "workload.oam.dev/type"
TraitTypeLabel == "trait.oam.dev/type"
LabelOAMResourceType == "app.oam.dev/resourceType"
AnnotationAppGeneration == "app.oam.dev/generation"
HelmReleaseNameAnnotation == "meta.helm.sh/release-name"
HelmReleaseNamespaceAnnotation == "meta.helm.sh/release-namespace"
ManagedByLabel == "app.kubernetes.io/managed-by"

\* the text values used
TxtHelm == <<"H", "e", "l", "m">>
TxtWorkload == <<"W", "O", "R", "K", "L", "O", "A", "D">>
TxtTrait == <<"T", "R", "A", "I", "T">>
TxtOne == <<"1">>

\* the Application and its revision
AppName == <<"a", "p", "p">>
AppNamespace == <<"d", "e", "f">>
AppRevisionName == <<"a", "p", "p", "-", "v", "1">>
AppRevisionHash == <<"0", "f">>

\* a map without entries
EmptyMap == [k \in {} |-> <<>>]

\* m[k] of a Go map: the empty string for a nil map or a missing key
Lookup(m, k) == IF m # Nil /\ k \in DOMAIN m THEN m[k] ELSE <<>>

\* faulty variant: on a conflict the existing value is kept
MergeMapKeepSrc(src, dst) ==
  IF src = Nil /\ dst = Nil THEN Nil
  ELSE LET a == IF src = Nil THEN EmptyMap ELSE src
           b == IF dst = Nil THEN EmptyMap ELSE dst
       IN [k \in DOMAIN a \cup DOMAIN b |->
             IF k \in DOMAIN a THEN a[k] ELSE b[k]]

\* MergeMapOverrideWithDst: the two maps merged, dst kept on a conflict
MergeMapOverrideWithDst(src, dst) ==
  IF src = Nil /\ dst = Nil THEN Nil
  ELSE LET a == IF src = Nil THEN EmptyMap ELSE src
           b == IF dst = Nil THEN EmptyMap ELSE dst
       IN [k \in DOMAIN a \cup DOMAIN b |->
             IF k \in DOMAIN b THEN b[k] ELSE a[k]]

\* apiVersion values, as group and version
GroupVersion(g, v) == [group |-> g, version |-> v]
KruiseGroup == "apps.kruise.io"
AppsGroup == "apps"
KruiseV1alpha1 == GroupVersion(KruiseGroup, "v1alpha1")
AppsV1 == GroupVersion(AppsGroup, "v1")
BatchV1 == GroupVersion("batch", "v1")

\* an owner reference
OwnerRef(kind, name, controller) ==
  [kind |-> kind, name |-> name, controller |-> controller]

\* the content of an object below its metadata: the values at its leaf paths
Leaf(path, v) == [q \in {path} |-> v]
ReplicasPath == <<"spec", "replicas">>
StrategyTypePath == <<"spec", "updateStrategy", "type">>

\* --------------------------------------------------------- the options
\* what an option returns: nil, an error, or no return at all
ErrNil == "nil"
ErrUnknownType == "we do not know how to prepare: unknown type"
ErrNotObject == "is not an object"
ErrNoRelease == "cannot get helm release from component"
ErrNoChartName == "cannot get helm chart name"
ErrNotFound == "not found"
ErrHelmMismatch == "the workload is found but not match with helm info"
Panic == "panic: nil pointer dereference"

\* the workload as an option leaves it, and what the option returned
Outcome(w, err) == [wl |-> w, err |-> err]

IsPrefix(p, q) == Len(p) <= Len(q) /\ SubSeq(q, 1, Len(p)) = p

\* fieldpath.Pave(content).SetBool(path, v): an error when a field on the way
\* holds a value that is not an object, else the value at path is v
SetBool(content, path, v) ==
  IF \E q \in DOMAIN content : Len(q) < Len(path) /\ IsPrefix(q, path)
  THEN [content |-> content, err |-> ErrNotObject]
  ELSE [content |->
          [q \in { r \in DOMAIN content : ~IsPrefix(path, r) } \cup {path} |->
             IF q = path THEN v ELSE content[q]],
        err |-> ErrNil]

\* the resources that we know how to disable
cloneSetDisablePath == <<"spec", "updateStrategy", "paused">>
advancedStatefulSetDisablePath ==
  <<"spec", "updateStrategy", "rollingUpdate", "paused">>
deploymentDisablePath == <<"spec", "paused">>

\* metav1.GetControllerOf: a copy of the first owner reference that is a
\* controller, nil without one
GetControllerOf(w) ==
  LET idx == { i \in 1..Len(w.ownerRefs) : w.ownerRefs[i].controller } IN
  IF idx = {} THEN Nil
  ELSE w.ownerRefs[CHOOSE i \in idx : \A j \in idx : i <= j]

\* the workload with the field at path set to true, and SetBool's error
Disable(w, path) ==
  LET r == SetBool(w.content, path, TRUE) IN
  Outcome([w EXCEPT !.content = r.content], r.err)

\* PrepareWorkloadForRollout: ownerRef.Controller is set on what
\* GetControllerOf returned, a copy (a nil pointer without a controller), so
\* the owner references of the workload stay as they are; then the pause
\* field of the known (group, kind) is set
PrepareWorkloadForRollout(w) ==
  LET ownerRef == GetControllerOf(w) IN
  IF ownerRef = Nil THEN Outcome(w, Panic)
  ELSE IF w.apiVersion.group = KruiseGroup
       THEN CASE w.kind = "CloneSet" -> Disable(w, cloneSetDisablePath)
              [] w.kind = "StatefulSet" ->
                   Disable(w, advancedStatefulSetDisablePath)
              [] OTHER -> Outcome(w, ErrUnknownType)
  ELSE IF w.apiVersion.group = AppsGroup /\ w.kind = "Deployment"
       THEN Disable(w, deploymentDisablePath)
  ELSE Outcome(w, ErrUnknownType)

\* NameNonInplaceUpgradableWorkload: the name becomes the value of the
\* component-revision label of the workload
NameNonInplaceUpgradableWorkload(w) ==
  Outcome([w EXCEPT !.name = Lookup(w.labels, LabelAppComponentRevision)],
          ErrNil)

\* c.Get(ObjectKey{Namespace: ns, Name: name})
Get(st, ns, name) ==
  IF <<ns, name>> \in DOMAIN st THEN st[<<ns, name>>] ELSE Nil

\* the release of the component names a chart: the store is read
ReadsStore(comp) ==
  /\ comp.helm # Nil
  /\ comp.helm.release # Nil
  /\ comp.helm.release.chart # <<>>

\* faulty variant: the manager of the object found is not looked at
discoverHelmModuleWorkloadAnyManager(w, comp, st) ==
  IF comp.helm = Nil THEN Outcome(w, ErrNil)
  ELSE IF comp.helm.release = Nil THEN Outcome(w, ErrNoRelease)
  ELSE IF comp.helm.release.chart = <<>> THEN Outcome(w, ErrNoChartName)
  ELSE
    LET ns == w.namespace
        rls == comp.helm.release.name
        chart == comp.helm.release.chart[1]
        workloadByHelm == Get(st, ns, QualifiedWorkloadName(rls, chart))
    IN
    IF workloadByHelm = Nil THEN Outcome(w, ErrNotFound)
    ELSE LET annots == workloadByHelm.annotations IN
         IF \/ annots = Nil
            \/ Lookup(annots, HelmReleaseNameAnnotation) # rls
            \/ Lookup(annots, HelmReleaseNamespaceAnnotation) # ns
         THEN Outcome(w, ErrHelmMismatch)
         ELSE Outcome(workloadByHelm, ErrNil)

\* discoverHelmModuleWorkload: for a Helm-based component the workload
\* becomes the object found under the qualified name, when Helm manages it
\* for the release
discoverHelmModuleWorkload(w, comp, st) ==
  IF comp.helm = Nil THEN Outcome(w, ErrNil)
  ELSE IF comp.helm.release = Nil THEN Outcome(w, ErrNoRelease)
  ELSE IF comp.helm.release.chart = <<>> THEN Outcome(w, ErrNoChartName)
  ELSE
    LET ns == w.namespace
        rls == comp.helm.release.name
        chart == comp.helm.release.chart[1]
        workloadByHelm == Get(st, ns, QualifiedWorkloadName(rls, chart))
    IN
    IF workloadByHelm = Nil THEN Outcome(w, ErrNotFound)
    ELSE LET annots == workloadByHelm.annotations
             labels == workloadByHelm.labels
         IN
         IF \/ annots = Nil
            \/ labels = Nil
            \/ Lookup(annots, HelmReleaseNameAnnotation) # rls
            \/ Lookup(annots, HelmReleaseNamespaceAnnotation) # ns
            \/ Lookup(labels, ManagedByLabel) # TxtHelm
         THEN Outcome(w, ErrHelmMismatch)
         ELSE Outcome(workloadByHelm, ErrNil)

\* the options that can be configured
OptionNames == {"naming", "discovery", "prepare"}

\* WorkloadOptionFn.ApplyToWorkload
ApplyToWorkload(opt, w, comp, st) ==
  CASE opt = "naming" -> NameNonInplaceUpgradableWorkload(w)
    [] opt = "discovery" -> discoverHelmModuleWorkload(w, comp, st)
    [] opt = "prepare" -> PrepareWorkloadForRollout(w)

\* ------------------------------------------------------- the revision
\* a trait of a component as rendered
RawTrait(type, apiVersion, kind, props) ==
  [type |-> type, apiVersion |-> apiVersion, kind |-> kind, props |-> props]

TraitScaler ==
  RawTrait(<<"s", "c", "a", "l", "e", "r">>,
           GroupVersion("core.oam.dev", "v1alpha2"), "ManualScalerTrait",
           <<"3">>)
TraitIngress ==
  RawTrait(<<"i", "n", "g", "r", "e", "s", "s">>,
           GroupVersion("networking.k8s.io", "v1beta1"), "Ingress",
           <<"l", "o">>)

\* a component of the revision bundle: its name, its revision name, the
\* workload as rendered, whether the workload kind is flagged
\* in-place-upgradable, the Helm release of a Helm-based component, the traits
Component(name, type, inplace, apiVersion, kind, labels, content, helm, trts) ==
  [name |-> name,
   revName |-> name \o <<"-", "v", "1">>,
   type |-> type,
   inplace |-> inplace,
   workload |-> [apiVersion |-> apiVersion, kind |-> kind,
                 labels |-> labels, content |-> content],
   helm |-> helm,
   traits |-> trts,
   scopes |-> <<>>]

\* the component with the scope bindings it declares
WithScopes(comp, scs) == [comp EXCEPT !.scopes = scs]

\* references to scopes
ScopeRef(apiVersion, kind, name) ==
  [apiVersion |-> apiVersion, kind |-> kind, name |-> name]
HealthScope ==
  ScopeRef(GroupVersion("core.oam.dev", "v1beta1"), "HealthScope",
           <<"s", "h", "s">>)
NetworkScope ==
  ScopeRef(GroupVersion("core.oam.dev", "v1beta1"), "NetworkScope",
           <<"n", "e", "t">>)

\* the Helm release of a component: its name and, when given, its chart name
HelmRelease(name, chart) == [release |-> [name |-> name, chart |-> chart]]
RlsName == <<"r", "l", "s">>
ChartName == <<"c", "h">>

TypeWebservice == <<"w", "e", "b">>
TypeWorker == <<"w", "r", "k">>

CompWeb ==
  WithScopes(
    Component(<<"w", "e", "b">>, TypeWebservice, FALSE, AppsV1, "Deployment",
              (LabelOAMResourceType :> <<"x">>), Leaf(ReplicasPath, 1), Nil,
              <<TraitIngress, TraitScaler>>),
    <<HealthScope>>)
CompClone ==
  Component(<<"c", "l", "o">>, TypeWorker, TRUE, KruiseV1alpha1, "CloneSet",
            Nil, Leaf(ReplicasPath, 1) @@ Leaf(StrategyTypePath, "InPlace"),
            Nil, <<TraitScaler>>)
CompSts ==
  WithScopes(
    Component(<<"s", "t", "s">>, TypeWorker, TRUE, KruiseV1alpha1,
              "StatefulSet", Nil, Leaf(ReplicasPath, 1), Nil, <<>>),
    <<NetworkScope, HealthScope>>)
CompDaemon ==
  Component(<<"d", "m", "n">>, TypeWorker, FALSE, KruiseV1alpha1,
            "DaemonSet", Nil, Leaf(ReplicasPath, 1), Nil, <<>>)
CompAppsSts ==
  Component(<<"a", "s", "s">>, TypeWorker, FALSE, AppsV1, "StatefulSet",
            Nil, Leaf(ReplicasPath, 1), Nil, <<>>)
CompJob ==
  WithScopes(
    Component(<<"j", "o", "b">>, TypeWorker, FALSE, BatchV1, "Job",
              Nil, Leaf(ReplicasPath, 1), Nil, <<>>),
    <<HealthScope>>)
CompChart ==
  WithScopes(
    Component(<<"h", "l", "m">>, TypeWebservice, FALSE, AppsV1, "Deployment",
              Nil, Leaf(ReplicasPath, 1),
              HelmRelease(RlsName, <<ChartName>>), <<TraitScaler>>),
    <<HealthScope, NetworkScope>>)
CompNoChart ==
  Component(<<"n", "c", "h">>, TypeWebservice, FALSE, AppsV1, "Deployment",
            Nil, Leaf(ReplicasPath, 1), HelmRelease(RlsName, <<>>), <<>>)

Components ==
  { CompWeb, CompClone, CompSts, CompDaemon, CompAppsSts, CompJob,
    CompChart, CompNoChart }

\* the bundles tried: up to MaxComps components of different names
Bundles ==
  UNION { { b \in [1..n -> Components] :
              \A i \in 1..n : \A j \in 1..n : b[i].name = b[j].name => i = j }
          : n \in 1..MaxComps }

\* the option configurations tried: every order of every choice of options
OptionChains ==
  UNION { { o \in [1..n -> OptionNames] :
              \A i \in 1..n : \A j \in 1..n : o[i] = o[j] => i = j }
          : n \in 0..Cardinality(OptionNames) }

\* an object created by Helm for the release rls, under the qualified name
LiveObject(kind, rls) ==
  [apiVersion |-> AppsV1,
   kind |-> kind,
   name |-> QualifiedWorkloadName(RlsName, ChartName),
   namespace |-> AppNamespace,
   labels |-> (ManagedByLabel :> TxtHelm),
   annotations |-> (HelmReleaseNameAnnotation :> rls)
                     @@ (HelmReleaseNamespaceAnnotation :> AppNamespace),
   ownerRefs |-> <<>>,
   content |-> Leaf(ReplicasPath, 2)]

StoreOf(obj) == [key \in {<<obj.namespace, obj.name>>} |-> obj]

\* the namespace of another Application
OtherNamespace == <<"o", "n", "s">>

\* an object of the qualified name that Helm did not create for the release
\* in the namespace of the Application: it belongs to another release, it
\* names another release namespace, another manager, or it has no labels
ForeignObjects ==
  { LiveObject("Deployment", <<"o", "t", "h">>),
    [LiveObject("Deployment", RlsName) EXCEPT
       !.annotations = (HelmReleaseNameAnnotation :> RlsName)
                         @@ (HelmReleaseNamespaceAnnotation :> OtherNamespace)],
    [LiveObject("Deployment", RlsName) EXCEPT
       !.labels = (ManagedByLabel :> <<"k", "c", "t", "l">>)],
    [LiveObject("Deployment", RlsName) EXCEPT !.labels = Nil] }

\* the cluster contents tried: nothing, the Deployment or the StatefulSet of
\* the release, the object of the release in another namespace, a foreign
\* object of the same name
Stores ==
  { EmptyMap,
    StoreOf(LiveObject("Deployment", RlsName)),
    StoreOf(LiveObject("StatefulSet", RlsName)),
    StoreOf([LiveObject("Deployment", RlsName) EXCEPT
               !.namespace = OtherNamespace]) }
    \cup { StoreOf(obj) : obj \in ForeignObjects }

\* ------------------------------------------------------- the assembler
\* the labels every assembled resource of a component carries
CommonLabels(comp) ==
  (LabelAppName :> AppName)
    @@ (LabelAppRevision :> AppRevisionName)
    @@ (LabelAppRevisionHash :> AppRevisionHash)
    @@ (LabelAppComponent :> comp.name)
    @@ (LabelAppComponentRevision :> comp.revName)

\* the owner reference to the Application, as controller
ApplicationOwner == OwnerRef("Application", AppName, TRUE)

\* the workload of a component with its metadata set: the component name,
\* the namespace of the Application, the label set (over the labels of the
\* template), one annotation, the owner reference
StampWorkload(comp) ==
  [apiVersion |-> comp.workload.apiVersion,
   kind |-> comp.workload.kind,
   name |-> comp.name,
   namespace |-> AppNamespace,
   labels |-> MergeMapOverrideWithDst(comp.workload.labels,
                CommonLabels(comp)
                  @@ (WorkloadTypeLabel :> comp.type)
                  @@ (LabelOAMResourceType :> TxtWorkload)),
   annotations |-> (AnnotationAppGeneration :> TxtOne),
   ownerRefs |-> <<ApplicationOwner>>,
   content |-> comp.workload.content]

\* the characters of names, with their codes
LowerCase ==
  <<"a", "b", "c", "d", "e", "f", "g", "h", "i", "j", "k", "l", "m", "n",
    "o", "p", "q", "r", "s", "t", "u", "v", "w", "x", "y", "z">>
UpperCase ==
  <<"A", "B", "C", "D", "E", "F", "G", "H", "I", "J", "K", "L", "M", "N",
    "O", "P", "Q", "R", "S", "T", "U", "V", "W", "X", "Y", "Z">>
Digits ==
  <<"0", "1", "2", "3", "4", "5", "6", "7", "8", "9">>

IsIn(chars, c) == \E i \in 1..Len(chars) : chars[i] = c
IndexOf(chars, c) == CHOOSE i \in 1..Len(chars) : chars[i] = c

\* the byte of the character c
Ord(c) ==
  IF IsIn(LowerCase, c) THEN 96 + IndexOf(LowerCase, c)
  ELSE IF IsIn(UpperCase, c) THEN 64 + IndexOf(UpperCase, c)
  ELSE IF IsIn(Digits, c) THEN 47 + IndexOf(Digits, c)
  ELSE 45

\* strings.ToLower
ToLower(s) ==
  [i \in 1..Len(s) |->
     IF IsIn(UpperCase, s[i]) THEN LowerCase[IndexOf(UpperCase, s[i])]
     ELSE s[i]]

\* a 32-bit value is kept as its two halves of 16 bits
Half == 65536

RECURSIVE Xor(_, _)
\* a ^ b
Xor(a, b) ==
  IF a = 0 THEN b
  ELSE IF b = 0 THEN a
  ELSE ((a + b) % 2) + 2 * Xor(a \div 2, b \div 2)

\* fnv.New32a(): the offset basis 2166136261; the prime is 16777619
FnvOffset == [hi |-> 33052, lo |-> 40389]
FnvPrime == [hi |-> 256, lo |-> 403]

\* one byte written to the hasher: hash ^= b, hash *= prime, in 32 bits
FnvWrite(h, b) ==
  LET x == (h.lo - (h.lo % 256)) + Xor(h.lo % 256, b)
      low == x * FnvPrime.lo
  IN [hi |-> (h.hi * FnvPrime.lo + x * FnvPrime.hi + (low \div Half)) % Half,
      lo |-> low % Half]

RECURSIVE Fnv32a(_, _)
\* the hasher after the bytes of text were written to it
Fnv32a(h, text) ==
  IF text = <<>> THEN h
  ELSE Fnv32a(FnvWrite(h, Ord(Head(text))), Tail(text))

RECURSIVE Sprint(_)
\* fmt.Sprint of a 32-bit value: its decimal digits
Sprint(h) ==
  LET t == (h.hi % 10) * Half + h.lo
      q == [hi |-> h.hi \div 10, lo |-> t \div 10]
  IN IF q.hi = 0 /\ q.lo = 0 THEN <<Digits[(t % 10) + 1]>>
     ELSE Sprint(q) \o <<Digits[(t % 10) + 1]>>

\* rand.SafeEncodeString: every character replaced by the one of alphanums
\* at its code modulo the number of alphanums
alphanums ==
  <<"b", "c", "d", "f", "g", "h", "j", "k", "l", "m", "n", "p", "q", "r",
    "s", "t", "v", "w", "x", "z", "2", "4", "5", "6", "7", "8", "9">>
SafeEncodeString(s) ==
  [i \in 1..Len(s) |-> alphanums[(Ord(s[i]) % Len(alphanums)) + 1]]

\* DeepHashObject: what is written to the hasher, the printed trait
DeepPrint(ct) == ct.props

\* faulty variant: the address of the trait is printed, another one in every
\* run
ComputeHashOfPointer(ct) ==
  SafeEncodeString(Sprint(Fnv32a(FnvOffset,
    DeepPrint(ct) \o (IF prior = <<>> THEN <<"0">> ELSE <<"1">>))))

\* ComputeHash: the encoded 32-bit FNV-1a hash of the printed trait
ComputeHash(ct) == SafeEncodeString(Sprint(Fnv32a(FnvOffset, DeepPrint(ct))))

\* the middle of the name of a trait without a type
TraitPrefixKey == <<"t", "r", "a", "i", "t">>
Dummy == <<"d", "u", "m", "m", "y">>

\* faulty variant: the type is used as it is written
GenTraitNameAsWritten(componentName, ct, traitType) ==
  LET traitMiddleName ==
        IF traitType # <<>> /\ traitType # Dummy
        THEN traitType ELSE TraitPrefixKey
  IN componentName \o <<"-">> \o traitMiddleName \o <<"-">> \o ComputeHash(ct)

\* GenTraitName: "<component>-<trait type>-<hash>"
GenTraitName(componentName, ct, traitType) ==
  LET traitMiddleName ==
        IF traitType # <<>> /\ traitType # Dummy
        THEN ToLower(traitType) ELSE TraitPrefixKey
  IN componentName \o <<"-">> \o traitMiddleName \o <<"-">> \o ComputeHash(ct)

\* faulty variant: the reference is taken from the workload as stamped
TraitWorkloadRefStamped(comp, final) ==
  [apiVersion |-> StampWorkload(comp).apiVersion,
   kind |-> StampWorkload(comp).kind,
   name |-> StampWorkload(comp).name]

\* the reference a trait holds to the workload final of its component
TraitWorkloadRef(comp, final) ==
  [apiVersion |-> final.apiVersion, kind |-> final.kind, name |-> final.name]

\* the trait ct of a component with its metadata and its workload reference
AssembleTrait(comp, ct, final) ==
  [apiVersion |-> ct.apiVersion,
   kind |-> ct.kind,
   name |-> GenTraitName(comp.name, ct, ct.type),
   namespace |-> AppNamespace,
   labels |-> CommonLabels(comp)
                @@ (TraitTypeLabel :> ct.type)
                @@ (LabelOAMResourceType :> TxtTrait),
   annotations |-> (AnnotationAppGeneration :> TxtOne),
   ownerRefs |-> <<ApplicationOwner>>,
   workloadRef |-> TraitWorkloadRef(comp, final),
   content |-> Leaf(<<"spec", "props">>, ct.props)]

\* the typed reference to an object
TypedReference(obj) ==
  [apiVersion |-> obj.apiVersion, kind |-> obj.kind, name |-> obj.name]

\* faulty variant: every component gets an entry, also one without scopes
AddScopesAlways(m, comp, final) ==
  LET key == TypedReference(final) IN
  IF key \in DOMAIN m THEN [m EXCEPT ![key] = @ \o comp.scopes]
  ELSE m @@ (key :> comp.scopes)

\* the scope references of the component added to the map m under the
\* reference to the workload final of the component
AddScopes(m, comp, final) ==
  LET key == TypedReference(final) IN
  IF comp.scopes = <<>> THEN m
  ELSE IF key \in DOMAIN m THEN [m EXCEPT ![key] = @ \o comp.scopes]
  ELSE m @@ (key :> comp.scopes)

\* what a run returns: the workloads, the traits, the scope references and
\* the errors, or nothing after a panic
Returned ==
  IF apc = "panic" THEN [panic |-> TRUE]
  ELSE [workloads |-> workloads, traits |-> traits, scopes |-> scopes,
        errs |-> errs]

\* a run of the assembler over a revision, with a configuration and a cluster
AssembleInputs ==
  /\ comps \in Bundles
  /\ options \in OptionChains
  /\ store \in Stores
  /\ apc = "stamp"
  /\ ci = 1
  /\ oi = 0
  /\ wl = Nil
  /\ workloads = EmptyMap
  /\ traits = EmptyMap
  /\ errs = EmptyMap
  /\ scopes = EmptyMap
  /\ reads = <<>>
  /\ prior = <<>>

\* where the run goes after the component at ci
AfterComponent == IF ci < Len(comps) THEN "stamp" ELSE "done"

\* the metadata of the workload of the next component is set
Stamp ==
  /\ apc = "stamp"
  /\ wl' = StampWorkload(comps[ci])
  /\ oi' = 1
  /\ apc' = "options"
  /\ UNCHANGED <<comps, options, ci, workloads, traits, errs, scopes, store,
                 reads, prior>>
  /\ UNCHANGED <<engineVars, nameVars, defVars>>

\* the next option of the chain runs on the workload: it goes on with the
\* next option, or its error is recorded for the component and the run goes
\* to the next component, or the run ends in a panic
RunOption ==
  /\ apc = "options"
  /\ oi <= Len(options)
  /\ LET comp == comps[ci]
         r == ApplyToWorkload(options[oi], wl, comp, store)
     IN
     /\ reads' = IF options[oi] = "discovery" /\ ReadsStore(comp)
                 THEN Append(reads, ci) ELSE reads
     /\ CASE r.err = ErrNil ->
               /\ wl' = r.wl
               /\ oi' = oi + 1
               /\ UNCHANGED <<apc, ci, errs>>
          [] r.err = Panic ->
               /\ apc' = "panic"
               /\ UNCHANGED <<wl, oi, ci, errs>>
          [] OTHER ->
               /\ errs' = errs @@ (comp.name :> r.err)
               /\ wl' = Nil
               /\ oi' = 0
               /\ ci' = ci + 1
               /\ apc' = AfterComponent
  /\ UNCHANGED <<comps, options, workloads, traits, scopes, store, prior>>
  /\ UNCHANGED <<engineVars, nameVars, defVars>>

\* the chain is through: the workload is final, the traits of the component
\* are assembled with their reference to it
Finalize ==
  /\ apc = "options"
  /\ oi > Len(options)
  /\ LET comp == comps[ci] IN
     /\ workloads' = workloads @@ (comp.name :> wl)
     /\ traits' = traits @@
          (comp.name :> [i \in 1..Len(comp.traits) |->
                           AssembleTrait(comp, comp.traits[i], wl)])
     /\ scopes' = AddScopes(scopes, comp, wl)
  /\ wl' = Nil
  /\ oi' = 0
  /\ ci' = ci + 1
  /\ apc' = AfterComponent
  /\ UNCHANGED <<comps, options, errs, store, reads, prior>>
  /\ UNCHANGED <<engineVars, nameVars, defVars>>

AssembleInit == NoWorkflow /\ NameIdle /\ DefinitionIdle /\ AssembleInputs

\* the revision is assembled once more, with the same configuration, on the
\* same cluster
Reassemble ==
  /\ apc \in {"done", "panic"}
  /\ prior = <<>>
  /\ prior' = <<Returned>>
  /\ apc' = "stamp"
  /\ ci' = 1
  /\ oi' = 0
  /\ wl' = Nil
  /\ workloads' = EmptyMap
  /\ traits' = EmptyMap
  /\ errs' = EmptyMap
  /\ scopes' = EmptyMap
  /\ reads' = <<>>
  /\ UNCHANGED <<comps, options, store>>
  /\ UNCHANGED <<engineVars, nameVars, defVars>>

AssembleNext == Stamp \/ RunOption \/ Finalize \/ Reassemble

\* the assembler on every bundle, option configuration and cluster tried
AssembleSpec == AssembleInit /\ [][AssembleNext]_vars

\* ------------------------------------------------- the names of traits
\* names of components
ComponentNames == { <<"w", "e", "b">>, <<"d", "b">> }

\* types of traits: none, the dummy type, and types written in lower case
\* and with capitals
TraitTypes ==
  { <<>>, Dummy, <<"D", "u", "m", "m", "y">>,
    <<"s", "c", "a", "l", "e", "r">>, <<"S", "c", "a", "l", "e", "r">> }

\* contents of traits
TraitProps ==
  { <<"3">>, <<"l", "o">>,
    <<"l", "i", "q", "u", "i", "d">>,
    <<"c", "o", "s", "t", "a", "r", "r", "i", "n", "g">> }

\* two traits of one type on one component
TraitNameInit ==
  /\ tnComponent \in ComponentNames
  /\ tnType \in TraitTypes
  /\ cts \in [1..2 -> { RawTrait(tnType, GroupVersion("core.oam.dev", "v1alpha2"),
                                 "ManualScalerTrait", p) : p \in TraitProps }]
  /\ traitNames = <<>>

\* the two traits are named
NameTraits ==
  /\ traitNames = <<>>
  /\ traitNames' = [i \in 1..2 |-> GenTraitName(tnComponent, cts[i], tnType)]
  /\ UNCHANGED <<tnComponent, tnType, cts>>
  /\ UNCHANGED <<rlsName, chartName, qualified>>
  /\ UNCHANGED <<engineVars, assembleVars, defVars>>

TraitNameSpecInit ==
  NoWorkflow /\ AssembleIdle /\ DefinitionIdle /\ HelmNameIdle /\ TraitNameInit

TraitNameNext == NameTraits

\* the naming of two traits on every component, type and content tried
TraitNameSpec == TraitNameSpecInit /\ [][TraitNameNext]_vars

\* ------------------------------------------------ lookup of a definition
\* oam.SystemDefinitonNamespace
SystemDefinitonNamespace == "vela-system"

\* the namespaces of the definitions; "" is the cluster scope
DefinitionNamespaces == {"env-ns", "app-ns", SystemDefinitonNamespace, ""}

\* what cli.Get gives: the definition (nil), a not-found error, another
\* error, and, without a namespace, the error that a namespace is required
ErrGetNil == "nil"
ErrGetNotFound == "not found"
ErrGetOther == "internal error"
ErrRequestNamespace ==
  "an empty namespace may not be set when a resource name is provided"

Responses ==
  { d \in [DefinitionNamespaces ->
             {ErrGetNil, ErrGetNotFound, ErrGetOther, ErrRequestNamespace}] :
      \A ns \in DefinitionNamespaces :
        d[ns] = ErrRequestNamespace => ns = "" }

\* faulty variant: every error counts as not found
IsNotFoundAnyError(e) == e # ErrGetNil

\* apierrors.IsNotFound
IsNotFound(e) == e = ErrGetNotFound

\* checkRequestNamespaceError
checkRequestNamespaceError(e) == e # ErrGetNil /\ e = ErrRequestNamespace

\* GetDefinitionNamespaceWithCtx: the namespace of the context, the system
\* namespace without one
GetDefinitionNamespaceWithCtx ==
  IF ctxValue = <<>> THEN SystemDefinitonNamespace ELSE ctxValue[1]

\* a call of GetDefinition, with an environment, a context and a cluster
DefinitionInit ==
  /\ dns \in {"", "env-ns"}
  /\ ctxValue \in {<<>>, <<"app-ns">>, <<SystemDefinitonNamespace>>}
  /\ definitions \in Responses
  /\ gets = <<>>
  /\ lastErr = "none"
  /\ dpc = "env"
  /\ ret = "none"

\* return e
Return(e) == ret' = e /\ dpc' = "returned"

\* the namespace of the environment, when one is set, is read
GetFromEnv ==
  /\ dpc = "env"
  /\ IF dns # ""
     THEN /\ gets' = Append(gets, dns)
          /\ lastErr' = definitions[dns]
          /\ IF definitions[dns] = ErrGetNil THEN Return(ErrGetNil)
             ELSE IF ~IsNotFound(definitions[dns])
                  THEN Return(definitions[dns])
             ELSE dpc' = "app" /\ UNCHANGED ret
     ELSE dpc' = "app" /\ UNCHANGED <<gets, lastErr, ret>>
  /\ UNCHANGED <<dns, ctxValue, definitions>>
  /\ UNCHANGED <<engineVars, assembleVars, nameVars>>

\* the namespace of the context is read
GetFromApp ==
  /\ dpc = "app"
  /\ LET appNs == GetDefinitionNamespaceWithCtx
         e == definitions[appNs]
     IN
     /\ gets' = Append(gets, appNs)
     /\ lastErr' = e
     /\ IF e # ErrGetNil
        THEN IF IsNotFound(e) THEN dpc' = "system" /\ UNCHANGED ret
             ELSE Return(e)
        ELSE Return(ErrGetNil)
  /\ UNCHANGED <<dns, ctxValue, definitions>>
  /\ UNCHANGED <<engineVars, assembleVars, nameVars>>

\* the system namespace is read
GetFromSystem ==
  /\ dpc = "system"
  /\ LET e == definitions[SystemDefinitonNamespace] IN
     /\ gets' = Append(gets, SystemDefinitonNamespace)
     /\ lastErr' = e
     /\ IF e # ErrGetNil
        THEN IF IsNotFound(e) THEN dpc' = "cluster" /\ UNCHANGED ret
             ELSE Return(e)
        ELSE Return(e)
  /\ UNCHANGED <<dns, ctxValue, definitions>>
  /\ UNCHANGED <<engineVars, assembleVars, nameVars>>

\* the cluster scope is read: compatibility with clusters whose definitions
\* are cluster scoped
GetFromCluster ==
  /\ dpc = "cluster"
  /\ LET newErr == definitions[""] IN
     /\ gets' = Append(gets, "")
     /\ IF checkRequestNamespaceError(newErr) THEN Return(lastErr)
        ELSE Return(newErr)
  /\ UNCHANGED <<dns, ctxValue, definitions, lastErr>>
  /\ UNCHANGED <<engineVars, assembleVars, nameVars>>

DefinitionSpecInit == NoWorkflow /\ AssembleIdle /\ NameIdle /\ DefinitionInit

DefinitionNext == GetFromEnv \/ GetFromApp \/ GetFromSystem \/ GetFromCluster

\* the lookup on every environment, context and cluster tried
DefinitionSpec == DefinitionSpecInit /\ [][DefinitionNext]_vars

\* ================================================================ properties
Terminal == {"Succeeded", "Failed", "Stopped"}

\* the object of step k was applied with the context of the current revision
AppliedInRevision(k) == targets[k].ctx.AppRevisionName = revision

\* the phase recorded for the object of step k, "none" without an entry
PhaseByRef(k) ==
  IF \E i \in 1..Len(status) : status[i].resourceRef = k
  THEN status[CHOOSE i \in 1..Len(status) : status[i].resourceRef = k].phase
  ELSE "none"

\* step j is executed before step k: an earlier stage, or the same stage and
\* an earlier place in the array
Precedes(j, k) ==
  \/ steps[j].stage = "pre-render" /\ steps[k].stage = "post-render"
  \/ steps[j].stage = steps[k].stage /\ j < k

\* a pass on the step at the cursor ends, having written / at all
PassWrote == pc = "applying" /\ fresh /\ pc' = "idle"
PassEnded == pc = "applying" /\ pc' = "idle"

CursorCond == targets[CursorStep].cond
Reported(c, reason) == c.present /\ c.status /\ c.reason = reason
EngineFields(t) == <<t.gen, t.ctx>>
NoApply == \A k \in 1..N : EngineFields(targets'[k]) = EngineFields(targets[k])
OtherEntriesKept ==
  /\ Len(status') = Len(status)
  /\ \A i \in 1..Len(status) : i # cursor => status'[i] = status[i]

C2_GenerationGate ==
  [][ (PassWrote /\ Reported(CursorCond, "Succeeded")) =>
        IF ParseObservedGeneration(CursorCond.message)
             = targets'[CursorStep].gen
        THEN /\ status'[cursor].phase = "succeeded"
             /\ cursor' = cursor + 1
        ELSE /\ status'[cursor].phase = "running"
             /\ status'[cursor].message = NoMessage
             /\ cursor' = cursor
             /\ wfState' = wfState
             /\ result' = "requeue" ]_vars

\* a step before the cursor succeeded on a matching generation and the step
\* at the cursor is held running by a stale Succeeded condition
C2_Witness ==
  /\ pc = "idle" /\ result = "requeue"
  /\ wfState \in {"PreRendering", "Running"}
  /\ cursor > 1 /\ cursor <= N
  /\ status[1].phase = "succeeded"
  /\ AppliedInRevision(CursorStep)
  /\ Reported(CursorCond, "Succeeded")
  /\ ParseObservedGeneration(CursorCond.message) # targets[CursorStep].gen
  /\ cursor <= Len(status) /\ status[cursor].phase = "running"

\* C3: a true Failed condition on the step at the cursor records failed, with
\* the message of the condition, on that step only and puts the engine in
\* Failed; in Failed nothing is applied and the steps after the cursor were
\* never applied in the revision
C3_FailedHalts ==
  /\ [][ (PassWrote /\ Reported(CursorCond, "Failed")) =>
           /\ status'[cursor].phase = "failed"
           /\ status'[cursor].message = CursorCond.message
           /\ status'[cursor].resourceRef = CursorStep
           /\ OtherEntriesKept
           /\ cursor' = cursor
           /\ wfState' = "Failed" ]_vars
  /\ [][ (wfState = "Failed" /\ revision' = revision) => NoApply ]_vars
  /\ [](wfState = "Failed" =>
          \A p \in (cursor + 1)..N : ~AppliedInRevision(StepAt(p)))

\* the first of two steps failed with the reported message
C3_Witness ==
  /\ wfState = "Failed"
  /\ cursor < N
  /\ status[cursor].phase = "failed"
  /\ \E m \in ErrMsgs : status[cursor].message = TextMessage(m)
  /\ AppliedInRevision(CursorStep)

\* C4: a true Stopped condition on the step at the cursor records stopped,
\* without error detail, and puts the engine in Stopped, not Failed; in
\* Stopped nothing is applied and the steps after the cursor were never
\* applied in the revision
C4_StoppedHalts ==
  /\ [][ (PassWrote /\ Reported(CursorCond, "Stopped")) =>
           /\ status'[cursor].phase = "stopped"
           /\ status'[cursor].message = NoMessage
           /\ OtherEntriesKept
           /\ cursor' = cursor
           /\ wfState' = "Stopped" ]_vars
  /\ [][ (wfState = "Stopped" /\ revision' = revision) => NoApply ]_vars
  /\ [](wfState = "Stopped" =>
          /\ \A p \in (cursor + 1)..N : ~AppliedInRevision(StepAt(p))
          /\ \A i \in 1..Len(status) : status[i].phase # "failed")

\* the first of two steps stopped the workflow
C4_Witness ==
  /\ wfState = "Stopped"
  /\ cursor < N
  /\ status[cursor].phase = "stopped"
  /\ Reported(CursorCond, "Stopped")
  /\ AppliedInRevision(CursorStep)

\* C5: a pass that finds no finish condition, or one that is not true, on the
\* step at the cursor leaves the step running, the cursor and the engine
\* state where they were, and returns a retry signal
C5_PendingStays ==
  [][ (PassEnded /\ ~(CursorCond.present /\ CursorCond.status)) =>
        /\ status'[cursor].phase = "running"
        /\ cursor' = cursor
        /\ wfState' = wfState
        /\ result' = "requeue" ]_vars

\* a pass has run on a step whose condition is present but not true
C5_Witness ==
  /\ pc = "idle" /\ result = "requeue"
  /\ wfState \in {"PreRendering", "Running"}
  /\ cursor <= N
  /\ AppliedInRevision(CursorStep)
  /\ CursorCond.present /\ ~CursorCond.status
  /\ status[cursor].phase = "running"

\* a reconcile pass of the engine
EnginePass ==
  ObserveRevision \/ ReadTarget \/ ApplyStep \/ Render \/ StartRunning \/ Finish

\* a step controller whose step is under way and then succeeds
StepProgress(k) == WriteCond(k, SucceedingConds(targets[k].gen))

\* the workflow with step controllers that do not halt it
LiveNext ==
  \/ NewRevision
  \/ EnginePass
  \/ \E k \in 1..N : StepProgress(k)

\* a workflow of post-render steps only
LiveInit == Init /\ \A k \in 1..Len(steps) : steps[k].stage = "post-render"

\* the Application is reconciled again and again
FairSpec == LiveInit /\ [][LiveNext]_vars /\ WF_vars(EnginePass)

PreSteps == { k \in 1..N : steps[k].stage = "pre-render" }
PostSteps == { k \in 1..N : steps[k].stage = "post-render" }
AllSucceeded == \A k \in 1..N : PhaseByRef(k) = "succeeded"

\* every applied object reports Succeeded for its current generation
AllReportSucceeded ==
  \A k \in 1..N :
    targets[k].gen > 0 =>
      /\ Reported(targets[k].cond, "Succeeded")
      /\ ParseObservedGeneration(targets[k].cond.message) = targets[k].gen

\* C6: for a workflow of post-render steps whose step controllers do not
\* halt it, when every step ends up reporting Succeeded for the generation
\* last applied, the workflow, reconciled again and again, ends with every
\* step succeeded in state Succeeded
C6_EventuallySucceeded ==
  <>[]AllReportSucceeded => <>(wfState = "Succeeded" /\ AllSucceeded)

\* a post-render workflow of several steps has run to the end
C6_Witness ==
  /\ N >= 2
  /\ PreSteps = {}
  /\ wfState = "Succeeded"
  /\ AllSucceeded
  /\ AllReportSucceeded

\* C7: the resources of a revision are rendered and stored, and a
\* post-render step is applied, only when every pre-render step has recorded
\* succeeded; they are not stored for a revision in which a pre-render step
\* failed or stopped
C7_StagesSequential ==
  /\ revision \in bundles => \A j \in PreSteps : PhaseByRef(j) = "succeeded"
  /\ \A k \in PostSteps :
       AppliedInRevision(k) => \A j \in PreSteps : PhaseByRef(j) = "succeeded"
  /\ (\E j \in PreSteps : PhaseByRef(j) \in {"failed", "stopped"})
       => revision \notin bundles
  /\ wfState \in {"Idle", "PreRendering"} => revision \notin bundles

\* the resources were stored and a post-render step applied after the
\* pre-render step
C7_Witness ==
  /\ PreSteps # {} /\ PostSteps # {}
  /\ revision \in bundles
  /\ \E k \in PostSteps : AppliedInRevision(k)

EngineStates ==
  {"Idle", "PreRendering", "Rendered", "Running"} \cup Terminal

AllowedMoves ==
  { <<"Idle", "PreRendering">>, <<"PreRendering", "Rendered">>,
    <<"Rendered", "Running">>, <<"Running", "Succeeded">>,
    <<"PreRendering", "Failed">>, <<"PreRendering", "Stopped">>,
    <<"Running", "Failed">>, <<"Running", "Stopped">> }

\* C8: inside a revision the engine state moves only along
\* Idle -> PreRendering -> Rendered -> Running -> Succeeded, or from
\* PreRendering or Running to Failed or Stopped; a revision starts in Idle;
\* Rendered is entered with every pre-render step succeeded and Succeeded
\* with every step succeeded
C8_StateMachine ==
  /\ [][ /\ (wfState' # wfState /\ revision' = revision)
              => <<wfState, wfState'>> \in AllowedMoves
         /\ revision' # revision => wfState' = "Idle"
         /\ (wfState' = "Rendered" /\ wfState # "Rendered")
              => \A j \in PreSteps : PhaseByRef(j) = "succeeded"
         /\ (wfState' = "Succeeded" /\ wfState # "Succeeded")
              => AllSucceeded ]_vars
  /\ [](wfState \in EngineStates)
  /\ [](wfState \in {"Rendered", "Running", "Succeeded"}
          => \A j \in PreSteps : PhaseByRef(j) = "succeeded")
  /\ [](wfState = "Succeeded" => AllSucceeded)

\* a workflow with steps of both stages went through every state to Succeeded
C8_Witness ==
  /\ PreSteps # {} /\ PostSteps # {}
  /\ wfState = "Succeeded"
  /\ revision \in bundles

\* C9: inside a revision an entry that is succeeded is never changed again,
\* and in Succeeded, Failed or Stopped the engine changes neither its state,
\* nor the cursor, nor the status list, and applies nothing
C9_NoUndo ==
  [][ revision' = revision =>
        /\ \A i \in 1..Len(status) :
             status[i].phase = "succeeded" =>
               i <= Len(status') /\ status'[i] = status[i]
        /\ wfState \in Terminal =>
             /\ wfState' = wfState
             /\ cursor' = cursor
             /\ status' = status
             /\ NoApply ]_vars

\* a step halted the workflow after an earlier step had succeeded
C9_Witness ==
  /\ wfState \in {"Failed", "Stopped"}
  /\ cursor > 1
  /\ status[1].phase = "succeeded"
  /\ status[cursor].phase \in {"failed", "stopped"}

StatusShape ==
  /\ Len(status) <= N
  /\ Len(status) <= cursor
  /\ cursor - 1 <= Len(status)
  /\ \A i \in 1..Len(status) : i < cursor => status[i].phase = "succeeded"
  /\ \A i \in 1..Len(status) : \A j \in 1..Len(status) :
       status[i].resourceRef = status[j].resourceRef => i = j
  /\ Cardinality({ i \in 1..Len(status) : status[i].phase = "running" }) <= 1

NextPass(st, t, changed) ==
  LET k == CursorStep
      obj == ApplyTo(t, k, changed)
      phase == Classify(obj.cond, obj.gen)
      read == MarkRunning(st, cursor, StepStatus(k, "running", NoMessage))
  IN [status |-> RecordStatus(read, cursor,
                    StepStatus(k, phase, ErrorDetail(obj.cond, phase))),
      target |-> obj]

\* C11: after a pass that leaves the step at the cursor running, a second
\* pass with no change in between to the object or the spec leaves the status
\* list as it is (same length, same entries) and the object as it is; a pass
\* that reads a step that has an entry appends none
C11_IdempotentReapply ==
  /\ [][ (PassWrote /\ cursor' = cursor /\ wfState' = wfState) =>
           \A changed \in BOOLEAN :
             LET again == NextPass(status', targets'[CursorStep], changed) IN
             /\ Len(again.status) = Len(status')
             /\ again.status = status'
             /\ again.target = targets'[CursorStep] ]_vars
  /\ [][ (pc = "idle" /\ pc' = "applying" /\ cursor <= Len(status)) =>
           status' = status ]_vars

\* the object of a running step was applied again in a second revision, its
\* generation raised once
C11_Witness ==
  /\ pc = "idle" /\ result = "requeue"
  /\ revision = 2
  /\ wfState \in {"PreRendering", "Running"}
  /\ cursor <= Len(status)
  /\ status[cursor].phase = "running"
  /\ AppliedInRevision(CursorStep)
  /\ targets[CursorStep].gen = 2
  /\ ~CursorCond.present

\* C12: every object the engine applies carries the context of the
\* Application, of the current revision and of the array index of the step
\* at the cursor, no other object is touched, and an applied object never
\* carries the index of another step or a revision that did not exist
C12_ContextAnnotation ==
  /\ [][ PassWrote =>
           LET k == CursorStep IN
           /\ DOMAIN targets'[k].ctx
                = {"AppName", "AppRevisionName", "WorkflowIndex"}
           /\ targets'[k].ctx.AppName = "app"
           /\ targets'[k].ctx.AppRevisionName = revision
           /\ targets'[k].ctx.WorkflowIndex = k
           /\ \A j \in 1..N : j # k => targets'[j] = targets[j] ]_vars
  /\ [](\A k \in 1..N :
          targets[k].gen > 0 =>
            /\ targets[k].ctx.AppName = "app"
            /\ targets[k].ctx.WorkflowIndex = k
            /\ targets[k].ctx.AppRevisionName \in 1..revision)

\* in a second revision of a workflow that lists its post-render step first,
\* the pre-render step (array index 2) was applied again with the new
\* context, the other object still carries the context of the first revision
C12_Witness ==
  /\ N = 2
  /\ steps[1].stage = "post-render" /\ steps[2].stage = "pre-render"
  /\ revision = 2
  /\ targets[2].ctx.AppRevisionName = 2 /\ targets[2].ctx.WorkflowIndex = 2
  /\ targets[1].ctx.AppRevisionName = 1 /\ targets[1].ctx.WorkflowIndex = 1

\* C13: the engine changes an object only in a pass whose read is still
\* current; a pass whose object was modified between its read and its write
\* writes nothing, keeps the modification, records no phase, leaves cursor
\* and engine state alone and returns a retry signal, after which the step is
\* read again
C13_OptimisticWrite ==
  /\ [][ ~NoApply => (pc = "applying" /\ fresh) ]_vars
  /\ [][ (PassEnded /\ ~fresh) =>
           /\ targets' = targets
           /\ status' = status
           /\ cursor' = cursor
           /\ wfState' = wfState
           /\ wfState' # "Failed"
           /\ result' = "requeue"
           /\ pc' = "idle" /\ CursorInStage' ]_vars

\* in the second revision a pass on the step at the cursor ended without
\* applying the object, on which a Failed condition was written meanwhile; the
\* step is recorded running and the workflow goes on
C13_Witness ==
  /\ revision = 2
  /\ pc = "idle" /\ result = "requeue"
  /\ wfState \in {"PreRendering", "Running"}
  /\ cursor <= Len(status)
  /\ status[cursor].phase = "running"
  /\ ~AppliedInRevision(CursorStep)
  /\ Reported(CursorCond, "Failed")

\* C20: the name under which discovery fetches the workload is the release
\* name when it contains the chart name; otherwise it is "<release>-<chart>"
\* when that has at most 63 characters, and else its first 63 characters
\* without the last of them when that is "-"
C20_QualifiedName ==
  qualified # <<>> =>
    LET full == rlsName \o <<"-">> \o chartName
        cut == [i \in 1..MaxNameLength |-> full[i]]
    IN
    IF \E i \in 0..(Len(rlsName) - Len(chartName)) :
         \A j \in 1..Len(chartName) : rlsName[i + j] = chartName[j]
    THEN qualified[1] = rlsName
    ELSE IF Len(full) <= 63 THEN qualified[1] = full
    ELSE IF full[63] = "-"
         THEN qualified[1] = [i \in 1..62 |-> full[i]]
         ELSE qualified[1] = cut

\* a name was cut after two "-": one is removed, the other stays
C20_Witness ==
  /\ qualified # <<>>
  /\ ~Contains(rlsName, chartName)
  /\ Len(rlsName) + 1 + Len(chartName) > 63
  /\ Len(rlsName) >= 61
  /\ rlsName[61] = "-"
  /\ Len(qualified[1]) = 62
  /\ qualified[1][62] = "-"

\* ------------------------------------------------ claims on the assembler
Configured(opt) == \E i \in 1..Len(options) : options[i] = opt

\* the option opt is the next to run on the workload being assembled
OptionRuns(opt) ==
  apc = "options" /\ oi <= Len(options) /\ options[oi] = opt

\* the option that ran returned nil / returned the error e
ReturnedNil == apc' = "options" /\ oi' = oi + 1
ReturnedError(e) ==
  /\ ci' = ci + 1
  /\ comps[ci].name \in DOMAIN errs'
  /\ errs'[comps[ci].name] = e

HasApplicationOwner(obj) ==
  \E i \in 1..Len(obj.ownerRefs) : obj.ownerRefs[i].kind = "Application"

\* the (group, kind) pairs the preparation knows, with their pause paths
KnownPausePaths ==
  (<<"apps.kruise.io", "CloneSet">> :> <<"spec", "updateStrategy", "paused">>)
    @@ (<<"apps.kruise.io", "StatefulSet">> :>
          <<"spec", "updateStrategy", "rollingUpdate", "paused">>)
    @@ (<<"apps", "Deployment">> :> <<"spec", "paused">>)

GroupKind(w) == <<w.apiVersion.group, w.kind>>

\* C14: the assembled workload of a component flagged in-place-upgradable is
\* named after the component; the workload of any other component, when the
\* naming override is configured, is named after the component revision, a
\* name that is not empty
C14_NameByKind ==
  \A i \in 1..Len(comps) :
    comps[i].name \in DOMAIN workloads =>
      LET c == comps[i]
          w == workloads[c.name]
      IN IF c.inplace THEN w.name = c.name
         ELSE Configured("naming") => (w.name = c.revName /\ w.name # <<>>)

\* C15: every assembled trait refers to the apiVersion, kind and name of the
\* workload returned for its component
C15_WorkloadRef ==
  \A n \in DOMAIN traits :
    /\ n \in DOMAIN workloads
    /\ \A i \in 1..Len(traits[n]) :
         /\ DOMAIN traits[n][i].workloadRef = {"apiVersion", "kind", "name"}
         /\ traits[n][i].workloadRef.apiVersion = workloads[n].apiVersion
         /\ traits[n][i].workloadRef.kind = workloads[n].kind
         /\ traits[n][i].workloadRef.name = workloads[n].name

\* the trait of a Helm-based component refers to the StatefulSet found in the
\* cluster under the qualified name, not to the Deployment of the template
C15_Witness ==
  \E n \in DOMAIN traits :
    /\ Len(traits[n]) > 0
    /\ \E i \in 1..Len(comps) :
         /\ comps[i].name = n
         /\ comps[i].workload.kind = "Deployment"
    /\ traits[n][1].workloadRef.kind = "StatefulSet"
    /\ traits[n][1].workloadRef.name # n

\* C16: every workload and every trait returned carries an owner reference of
\* kind Application
C16_OwnedByApplication ==
  /\ \A n \in DOMAIN workloads : HasApplicationOwner(workloads[n])
  /\ \A n \in DOMAIN traits :
       \A i \in 1..Len(traits[n]) : HasApplicationOwner(traits[n][i])

\* C17: the preparation of a workload whose (group, kind) is not known
\* returns the unknown-type error
C17_UnknownTypeError ==
  [][ (OptionRuns("prepare") /\ GroupKind(wl) \notin DOMAIN KnownPausePaths)
        => ReturnedError(ErrUnknownType) ]_vars

\* C18: after the preparation returned nil on a workload controlled by the
\* Application, the owner reference to the Application is still there and no
\* owner reference is a controller
C18_ControllerCleared ==
  [][ ( /\ OptionRuns("prepare")
        /\ \E i \in 1..Len(wl.ownerRefs) :
             wl.ownerRefs[i].kind = "Application" /\ wl.ownerRefs[i].controller
        /\ ReturnedNil )
        => /\ HasApplicationOwner(wl')
           /\ \A i \in 1..Len(wl'.ownerRefs) : ~wl'.ownerRefs[i].controller
     ]_vars

\* C19: the preparation of a workload of a known (group, kind) returns nil
\* with the pause field of that kind true and nothing else changed
C19_PauseField ==
  [][ (OptionRuns("prepare") /\ GroupKind(wl) \in DOMAIN KnownPausePaths)
        => LET path == KnownPausePaths[GroupKind(wl)] IN
           /\ ReturnedNil
           /\ DOMAIN wl'.content = DOMAIN wl.content \cup {path}
           /\ wl'.content[path] = TRUE
           /\ \A q \in DOMAIN wl.content :
                q # path => wl'.content[q] = wl.content[q]
           /\ [wl' EXCEPT !.content = wl.content] = wl ]_vars

\* what the provenance of the object obj must be for the release rls in the
\* namespace ns
CreatedByHelmFor(obj, rls, ns) ==
  /\ obj.annotations # Nil
  /\ HelmReleaseNameAnnotation \in DOMAIN obj.annotations
  /\ obj.annotations[HelmReleaseNameAnnotation] = rls
  /\ HelmReleaseNamespaceAnnotation \in DOMAIN obj.annotations
  /\ obj.annotations[HelmReleaseNamespaceAnnotation] = ns
  /\ obj.labels # Nil
  /\ ManagedByLabel \in DOMAIN obj.labels
  /\ obj.labels[ManagedByLabel] = <<"H", "e", "l", "m">>

\* the option about to run leaves the workload as it is
LeavesWorkload == ApplyToWorkload(options[oi], wl, comps[ci], store).wl = wl

\* C21: discovery on the workload of a component with a release and a chart
\* name makes the workload the object stored under the qualified name in the
\* namespace of the workload when that object exists and carries the release
\* name, that namespace and the manager Helm; when no such object exists it
\* returns the not-found error, when the provenance differs it returns the
\* mismatch error, a different one, and in both cases the workload is left
\* as it was
C21_DiscoveryProvenance ==
  /\ [][ (OptionRuns("discovery") /\ ReadsStore(comps[ci])) =>
           LET rel == comps[ci].helm.release
               key == <<wl.namespace,
                        QualifiedWorkloadName(rel.name, rel.chart[1])>>
           IN
           IF key \notin DOMAIN store
           THEN ReturnedError(ErrNotFound) /\ LeavesWorkload
           ELSE IF CreatedByHelmFor(store[key], rel.name, wl.namespace)
                THEN ReturnedNil /\ wl' = store[key]
                ELSE ReturnedError(ErrHelmMismatch) /\ LeavesWorkload ]_vars
  /\ [](ErrNotFound # ErrHelmMismatch /\ ErrNotFound # ErrNil
          /\ ErrHelmMismatch # ErrNil)

\* discovery replaced the stamped Deployment of a Helm-based component by the
\* object of the cluster
C21_Witness ==
  /\ apc = "options"
  /\ oi > 1
  /\ options[oi - 1] = "discovery"
  /\ ReadsStore(comps[ci])
  /\ <<AppNamespace, wl.name>> \in DOMAIN store
  /\ wl = store[<<AppNamespace, wl.name>>]
  /\ wl # StampWorkload(comps[ci])

RECURSIVE ChainFrom(_, _, _)
\* what the options from the i-th on make of the workload w of the component
\* comp when each runs on what the one before it left and the first error
\* ends the chain: the workload, the error, the number of options that ran
ChainFrom(w, comp, i) ==
  IF i > Len(options) THEN [wl |-> w, err |-> ErrNil, ran |-> i - 1]
  ELSE LET r == ApplyToWorkload(options[i], w, comp, store) IN
       IF r.err = ErrNil THEN ChainFrom(r.wl, comp, i + 1)
       ELSE [wl |-> r.wl, err |-> r.err, ran |-> i]

\* the result of the component comp when it is assembled on its own
Alone(comp) == ChainFrom(StampWorkload(comp), comp, 1)

\* the run is through with the j-th component
Assembled(j) == j < ci \/ apc = "done"

\* the store was read for the j-th component
WasRead(j) == \E k \in 1..Len(reads) : reads[k] = j

\* every finished component has the result it has when assembled on its own,
\* by the options in their order up to the first error, and no option after
\* that one ran on it
ResultPerComponent ==
  \A j \in 1..Len(comps) :
    Assembled(j) =>
      LET c == comps[j]
          r == Alone(c)
      IN
      /\ IF r.err = ErrNil
         THEN /\ c.name \in DOMAIN workloads
              /\ workloads[c.name] = r.wl
              /\ c.name \in DOMAIN traits
              /\ c.name \notin DOMAIN errs
         ELSE /\ c.name \in DOMAIN errs
              /\ errs[c.name] = r.err
              /\ c.name \notin DOMAIN workloads
              /\ c.name \notin DOMAIN traits
      /\ WasRead(j) <=>
           /\ ReadsStore(c)
           /\ \E i \in 1..r.ran : options[i] = "discovery"

\* C22: the options run on the stamped workload of each component in the
\* configured order up to the first that returns an error; that error is
\* reported for the component, no later option runs on it, every other
\* component has the result it has without the failing one, and the run that
\* reported an error for a component returns
C22_PartialFailure ==
  /\ ResultPerComponent
  /\ errs # EmptyMap => apc # "panic"

WithScopeBinding ==
  { j \in 1..Len(comps) :
      comps[j].name \in DOMAIN workloads /\ comps[j].scopes # <<>> }

\* C24: the keys of the scope reference map are the references, by
\* apiVersion, kind and name, to the returned workloads of the components
\* that declare a scope; no key has an empty list, and the list of a key is
\* the list of scope references of its component, in the order declared
C24_ScopeMap ==
  /\ DOMAIN scopes =
       { [apiVersion |-> workloads[comps[j].name].apiVersion,
          kind |-> workloads[comps[j].name].kind,
          name |-> workloads[comps[j].name].name] : j \in WithScopeBinding }
  /\ \A key \in DOMAIN scopes : Len(scopes[key]) > 0
  /\ \A j \in WithScopeBinding :
       LET w == workloads[comps[j].name] IN
       scopes[[apiVersion |-> w.apiVersion, kind |-> w.kind, name |-> w.name]]
         = comps[j].scopes

\* a run returned two workloads: one without scopes, and the discovered
\* workload of a Helm-based component, under whose reference the map holds
\* the two scopes of the component in their order
C24_Witness ==
  /\ apc = "done"
  /\ Cardinality(DOMAIN workloads) = 2
  /\ Cardinality(DOMAIN scopes) = 1
  /\ \E key \in DOMAIN scopes :
       /\ key.name = QualifiedWorkloadName(RlsName, ChartName)
       /\ Len(scopes[key]) = 2
       /\ scopes[key][1].kind = "HealthScope"
       /\ scopes[key][2].kind = "NetworkScope"

\* the labels every resource of the component c carries, with their values
LabelsOfComponent(c) ==
  ("app.oam.dev/name" :> AppName)
    @@ ("app.oam.dev/appRevision" :> AppRevisionName)
    @@ ("app.oam.dev/app-revision-hash" :> AppRevisionHash)
    @@ ("app.oam.dev/component" :> c.name)
    @@ ("app.oam.dev/revision" :> c.revName)

\* the object carries the labels expected, with the values expected
Carries(obj, expected) ==
  /\ obj.labels # Nil
  /\ \A k \in DOMAIN expected :
       k \in DOMAIN obj.labels /\ obj.labels[k] = expected[k]

\* the labels of the returned workload of the component c are the seven of
\* a workload
WorkloadLabelled(c) ==
  Carries(workloads[c.name],
          LabelsOfComponent(c)
            @@ ("workload.oam.dev/type" :> c.type)
            @@ ("app.oam.dev/resourceType" :> TxtWorkload))

\* C25: every returned workload carries the labels for the application name,
\* the application revision, its hash, the component name, the component
\* revision, the workload type and the resource type WORKLOAD; every returned
\* trait carries the first five, the trait type and the resource type TRAIT;
\* this under every option configuration and also for a key that the
\* rendered template sets to another value
C25_Labels ==
  \A j \in 1..Len(comps) :
    LET c == comps[j] IN
    /\ c.name \in DOMAIN workloads => WorkloadLabelled(c)
    /\ c.name \in DOMAIN traits =>
         \A i \in 1..Len(traits[c.name]) :
           Carries(traits[c.name][i],
                   LabelsOfComponent(c)
                     @@ ("trait.oam.dev/type" :> c.traits[i].type)
                     @@ ("app.oam.dev/resourceType" :> TxtTrait))

\* the text is the type with every capital letter replaced by its small one
LowerCased(text, type) ==
  /\ Len(text) = Len(type)
  /\ \A i \in 1..Len(type) :
       Ord(text[i]) = IF Ord(type[i]) \in 65..90 THEN Ord(type[i]) + 32
                      ELSE Ord(type[i])

\* the name is "<component>-<middle>-<hash>" with a middle as the type asks
WellFormedTraitName(name, component, type) ==
  \E m \in 1..Len(name) :
    LET start == Len(component) + 1
        middle == SubSeq(name, start + 1, start + m)
    IN
    /\ Len(name) > start + m + 1
    /\ SubSeq(name, 1, Len(component)) = component
    /\ name[start] = "-"
    /\ name[start + m + 1] = "-"
    /\ IF type = <<>> \/ type = <<"d", "u", "m", "m", "y">>
       THEN middle = <<"t", "r", "a", "i", "t">>
       ELSE LowerCased(middle, type)

\* the generated names have the form asked for, and equal traits get the
\* same name
TraitNamesFormed ==
  traitNames # <<>> =>
    /\ \A i \in 1..2 : WellFormedTraitName(traitNames[i], tnComponent, tnType)
    /\ cts[1] = cts[2] => traitNames[1] = traitNames[2]

\* C26: the name of a trait is "<component>-<middle>-<hash>", the middle
\* being the type in lower case, or "trait" for no type and for the type
\* dummy; two equal traits of a component get the same name, and two traits
\* of one type on one component whose contents differ get different names
C26_TraitName ==
  /\ TraitNamesFormed
  /\ traitNames # <<>> =>
       (cts[1].props # cts[2].props => traitNames[1] # traitNames[2])

\* C27: the qualified name of the workload of a release has at most 63
\* characters and does not end with "-", for every release and chart name
C27_NameIsValid ==
  qualified # <<>> =>
    /\ Len(qualified[1]) <= 63
    /\ Len(qualified[1]) > 0 => qualified[1][Len(qualified[1])] # "-"

\* the namespaces in the order of the lookup
LookupOrder ==
  (IF dns # "" THEN <<dns>> ELSE <<>>)
    \o <<IF ctxValue = <<>> THEN "vela-system" ELSE ctxValue[1],
         "vela-system", "">>

\* C28: the lookup reads the namespace of the environment when one is set,
\* then the namespace of the context (the system namespace without one),
\* then the system namespace, then the cluster scope; it goes on to the next
\* only after a not-found error; it returns nil at the first that holds the
\* definition, returns any other error of the three namespaces at once, and
\* returns a not-found error when none holds the definition
C28_LookupOrder ==
  /\ Len(gets) <= Len(LookupOrder)
  /\ \A k \in 1..Len(gets) :
       /\ gets[k] = LookupOrder[k]
       /\ k < Len(gets) => definitions[gets[k]] = "not found"
  /\ dpc = "returned" =>
       LET n == Len(gets)
           last == definitions[gets[n]]
       IN
       /\ n >= 1
       /\ last = "not found" => n = Len(LookupOrder)
       /\ ret = "nil" <=> last = "nil"
       /\ (last = "internal error" /\ n < Len(LookupOrder))
            => ret = "internal error"
       /\ (\A k \in 1..Len(LookupOrder) :
             definitions[LookupOrder[k]] = "not found")
            => (n = Len(LookupOrder) /\ ret = "not found")

\* with the environment namespace set, the definition was found in the
\* system namespace after two misses, and the cluster scope was not read
C28_Witness ==
  /\ dpc = "returned"
  /\ gets = <<"env-ns", "app-ns", "vela-system">>
  /\ ret = "nil"
  /\ definitions[""] = "nil"

====
